---- MODULE Spec2Model ----
(***************************************************************************)
(* ARKeys host side: the keystroke listener and the metrics computation of *)
(* src/host/api/host_ws.py as a state machine, and the state of the        *)
(* display client that receives the payloads.                              *)
(*                                                                         *)
(* Two threads share the module globals of host_ws.py:                     *)
(*   - the pynput listener thread runs on_press, one call at a time;       *)
(*   - the asyncio thread runs calculate_metrics (called by every          *)
(*     metrics_producer coroutine, never two calls at once).               *)
(* on_press takes metrics_lock only around lines 95-103 and 119-135, so    *)
(* its other statements interleave with calculate_metrics, which holds     *)
(* the lock from line 160 to line 229.                                     *)
(*                                                                         *)
(* Time is time.time() in whole seconds.  Rates (floats in the source) are *)
(* exact rationals <<numerator, denominator>> in lowest terms; the payload *)
(* carries them rounded to one decimal, as an integer number of tenths.    *)
(* An optional value (None or a float) is <<>> or <<t>>.                   *)
(*                                                                         *)
(* Steps.  A statement that touches only what its own thread writes and    *)
(* reads is taken together with the shared access before it, and a         *)
(* statement that changes nothing is skipped: word_buffer is read and      *)
(* written by on_press alone; session_start, last_ts and idle_time are     *)
(* written by on_press alone, so on_press knows which of lines 87 and 93   *)
(* will run as soon as it has read the clock.  Lines 83-106 do not read    *)
(* the key, so the key is drawn where on_press first looks at it.          *)
(* calculate_metrics reads the clock (line 161) in one step and does the   *)
(* rest in another: of what it reads after the clock, only session_start,  *)
(* idle_time and last_ts can change under it, and on_press never changes   *)
(* two of them without taking the lock in between while the mode is        *)
(* "typing".                                                               *)
(*                                                                         *)
(* Specifications.  Spec drives the listener with every kind of key and    *)
(* few clock advances; SpecPause with one-letter words and more clock      *)
(* advances; SpecBurst with one burst of words that fills word_events;     *)
(* SpecScript with a script of words and pauses around IDLE_THRESHOLD;     *)
(* SpecLookup is Spec with a dictionary lookup that can raise; SpecServe   *)
(* runs main: the listener thread, the server, one metrics_producer        *)
(* coroutine per connection, the signals and the shutdown, with fairness.  *)
(* SpecEdit types, erases and ends words of up to MaxEdit characters at    *)
(* one instant.  SpecDisplay is the display client of                      *)
(* src/pi/display/home_screen.py: the DisplayState that the websocket      *)
(* thread updates from the messages and the display loop resets.           *)
(***************************************************************************)
EXTENDS Integers, Sequences, FiniteSets, TLC

\* ---------------------------------------------------------------- bounds
\* Spec: longest word buffer the listener is driven to.
MaxBuf == 1
\* Spec: most words completed in one run.
MaxWords == 2
\* Spec: most clock advances in one run.
MaxTicks == 1
\* SpecPause: most clock advances in one run.
MaxPauses == 3
\* SpecBurst: seconds the run goes on after the last word.
BurstTail == 31
\* SpecEdit: longest word buffer the listener is driven to.
MaxEdit == 2

\* ----------------------------------------------------- program constants
IDLE_THRESHOLD == 30
SLIDING_WINDOW == 60
INACTIVE_WPM_FREEZE == 5
\* Capacity of the deque of word timestamps.  The source sets 500; the model
\* runs the same deque with a small capacity so that MAX_WORD_EVENTS + 1
\* insertions happen within the bounds.
MAX_WORD_EVENTS == 3

\* ------------------------------------------------------------- the state
VARIABLES
  clock,          \* time.time()
  total_words, correct_words, word_buffer, word_events,
  session_start, last_ts, idle_time,
  current_mode, peak_wpm, last_wpm, last_word_time, refresh_flag,
  metrics_lock,   \* "free", or the thread holding it
  kpc, now_k,     \* on_press: position, local now
  mpc, now_m,     \* calculate_metrics: position, local now
  metrics,        \* <<>>, or <<the payload returned and not yet sent>>
  running,        \* the global flag of line 66
  active_connections,
  cpc,            \* metrics_producer: position of each client's coroutine
  wire,           \* per client: <<>>, or <<the payload being sent, its now>>
  server,         \* main and start_server: "init", "serving", "closing", "closed"
  listening,      \* the pynput listener: "unstarted", "started", "stopped"
  ticks,          \* clock advances so far (Spec, SpecPause)
  gaps,           \* seconds between one word and the next (SpecBurst)
  boundaries,     \* history: boundary keys that found a non-empty trimmed buffer
  transitioned,   \* history: a mode transition since the last payload
  since,          \* history: instants of the words completed since the
                  \* mode last became "typing"
  shown,          \* history: the highest wpm, in tenths, of the payloads
                  \* computed since the last word was completed, while
                  \* the mode has been "typing"
  erased,         \* history: "yes" when a backspace has removed a character
                  \* since the buffer was last cleared, "counted" when that
                  \* held for the word the last keystroke counted, "blank"
                  \* when the last keystroke was a boundary key that found
                  \* nothing to count, else "no"
  display_mode,   \* home_screen.py, DisplayState.mode
  last_mode,      \* DisplayState.last_mode: <<>> is None
  do_full_flash,  \* DisplayState.do_full_flash
  display_metrics,\* DisplayState.metrics: wpm and peak_wpm, in tenths
  last_active_wpm,\* DisplayState.last_active_wpm, in tenths
  is_connected,   \* DisplayState.is_connected
  received,       \* history: the wpm of the last message with mode "typing"
                  \* and a positive wpm, 0 when there was none
  prev            \* history: <<>>, or <<the figures and the now of the first of
                  \* the payloads computed since on_press last ran, and whether
                  \* one (n = 1) or more (n = 2) were computed at that now>>

engine == <<total_words, correct_words, word_events, current_mode, peak_wpm,
            last_wpm, last_word_time, refresh_flag>>
session == <<session_start, last_ts, idle_time>>
listener == <<kpc, now_k>>
producer == <<mpc, now_m, metrics>>
serving == <<running, active_connections, cpc, wire, server, listening>>
display == <<display_mode, last_mode, do_full_flash, display_metrics,
             last_active_wpm, is_connected, received>>
vars == <<clock, engine, session, word_buffer, metrics_lock, listener, producer,
          serving, display, ticks, gaps, erased, since, shown, boundaries, transitioned, prev>>

\* The clients that connect.
Clients == {1, 2}

\* ------------------------------------------------------------ arithmetic
None == <<>>
Some(t) == <<t>>
\* Python truthiness of an optional float: None and 0.0 are false.
Truthy(o) == o # None /\ o[1] # 0

RECURSIVE GCD(_, _)
GCD(a, b) == IF b = 0 THEN a ELSE GCD(b, a % b)

\* n/d (n >= 0, d > 0) in lowest terms.
Rat(n, d) == LET g == GCD(n, d) IN <<n \div g, d \div g>>
Zero == <<0, 1>>
RatGT(a, b) == a[1] * b[2] > b[1] * a[2]

\* round(x, 1) of x = n/d >= 0, in tenths: nearest, ties to even.
Round1(r) ==
  LET q == (10 * r[1]) \div r[2]
      rem2 == 2 * ((10 * r[1]) % r[2])
  IN  IF rem2 < r[2] THEN q
      ELSE IF rem2 > r[2] THEN q + 1
      ELSE IF q % 2 = 0 THEN q ELSE q + 1

\* ------------------------------------------------------------------ keys
\* key.char values: two letters and a whitespace character.
Chars == {"a", "x", " "}
IsSpace(c) == c = " "
\* Special keys (no .char) and a KeyCode whose char is None.
Boundary == {"Key.space", "Key.enter"}
Keys == Chars \cup Boundary \cup {"Key.backspace", "Key.shift", "char=None"}

\* ''.join(word_buffer).strip()
RECURSIVE LStrip(_)
LStrip(s) == IF s # <<>> /\ IsSpace(Head(s)) THEN LStrip(Tail(s)) ELSE s
RECURSIVE RStrip(_)
RStrip(s) ==
  IF s # <<>> /\ IsSpace(s[Len(s)]) THEN RStrip(SubSeq(s, 1, Len(s) - 1)) ELSE s
\* Mutant: the buffer is joined but not stripped.
Strip_NotStripped(s) == s
Strip(s) == RStrip(LStrip(s))

\* w in spell: the dictionary holds the words written with the letter "a" only.
InSpell(w) == w # <<>> /\ \A i \in 1..Len(w) : w[i] = "a"

\* Mutant: a full deque keeps what it holds and drops the new timestamp.
DequeAppend_DropNewest(q, x) ==
  IF Len(q) < MAX_WORD_EVENTS THEN Append(q, x) ELSE q

\* deque(maxlen=MAX_WORD_EVENTS).append
DequeAppend(q, x) ==
  IF Len(q) < MAX_WORD_EVENTS THEN Append(q, x) ELSE Append(Tail(q), x)

RECURSIVE SeqMax(_)
SeqMax(s) ==
  IF Len(s) = 1 THEN s[1]
  ELSE LET m == SeqMax(Tail(s)) IN IF s[1] > m THEN s[1] ELSE m

\* ----------------------------------------------------------------- Init
\* The module globals as lines 52-69 set them; the clock is some time
\* after the epoch.
\* home_screen.py lines 64-88: DisplayState.__init__
DisplayState ==
  /\ display_mode = "idle" /\ last_mode = None /\ do_full_flash = FALSE
  /\ display_metrics = [wpm |-> 0, peak_wpm |-> 0]
  /\ last_active_wpm = 0
  /\ is_connected = FALSE
  /\ received = 0

Start ==
  /\ clock = 1
  /\ total_words = 0 /\ correct_words = 0
  /\ word_buffer = <<>> /\ word_events = <<>>
  /\ session_start = None /\ last_ts = None /\ idle_time = 0
  /\ current_mode = "idle" /\ peak_wpm = Zero /\ last_wpm = Zero
  /\ last_word_time = 0 /\ refresh_flag = FALSE
  /\ metrics_lock = "free"
  /\ kpc = "idle" /\ now_k = 0
  /\ mpc = "idle" /\ now_m = 0
  /\ metrics = <<>>
  /\ running = TRUE /\ active_connections = {}
  /\ ticks = 0 /\ boundaries = 0
  /\ transitioned = FALSE /\ prev = <<>> /\ since = <<>> /\ shown = 0 /\ erased = "no"
  /\ DisplayState


\* ------------------------------------------------------------- the clock
\* time.time() never goes back, and nothing sees it pass but the two reads of
\* lines 83 and 161: a read finds it d seconds after the read before.
TimeTime(d) == clock' = clock + d

\* Spec: seconds by which a read finds the clock advanced.
TickSteps == {5, 31}
\* SpecPause: the same; 30 is IDLE_THRESHOLD itself.
PauseSteps == {5, 30}

\* -------------------------------------------------------------- on_press
\* The handler returns: its locals die.
Return == kpc' = "idle" /\ now_k' = 0

IdleGap_AtThreshold(now) == last_ts # None /\ now - last_ts[1] >= IDLE_THRESHOLD

\* line 92, for the handler's now
IdleGap(now) == last_ts # None /\ now - last_ts[1] > IDLE_THRESHOLD

\* line 83: pynput calls on_press; now = time.time()
on_press(d) ==
  /\ kpc = "idle"
  /\ TimeTime(d)
  /\ now_k' = clock'
  /\ kpc' = IF session_start = None THEN "session"
            ELSE IF IdleGap(clock') THEN "gap" ELSE "key"
  /\ prev' = <<>>
  /\ UNCHANGED <<engine, session, word_buffer, metrics_lock, producer,
                 gaps, erased, since, shown, boundaries, transitioned>>

\* lines 86-87: the first keystroke starts the session
on_press_session ==
  /\ kpc = "session"
  /\ session_start' = Some(now_k)
  /\ kpc' = IF IdleGap(now_k) THEN "gap" ELSE "key"
  /\ prev' = <<>>
  /\ UNCHANGED <<clock, engine, last_ts, idle_time, word_buffer, metrics_lock,
                 now_k, producer, gaps, erased, since, shown, boundaries, transitioned>>

\* lines 90-93: a gap longer than IDLE_THRESHOLD is idle time
on_press_gap ==
  /\ kpc = "gap"
  /\ idle_time' = idle_time + (now_k - last_ts[1])
  /\ kpc' = "resume"
  /\ prev' = <<>>
  /\ UNCHANGED <<clock, engine, session_start, last_ts, word_buffer, metrics_lock,
                 now_k, producer, gaps, erased, since, shown, boundaries, transitioned>>

on_press_resume_ResetsClock ==
  /\ kpc = "resume"
  /\ metrics_lock = "free"
  /\ IF current_mode = "idle"
       THEN /\ current_mode' = "typing"
            /\ peak_wpm' = Zero
            /\ refresh_flag' = TRUE
            /\ word_events' = <<>>
            /\ idle_time' = 0
       ELSE UNCHANGED <<current_mode, peak_wpm, refresh_flag, word_events, idle_time>>
  /\ transitioned' = (transitioned \/ current_mode' # current_mode)
  /\ since' = IF current_mode = "idle" THEN <<>> ELSE since
  /\ shown' = IF current_mode = "idle" THEN 0 ELSE shown
  /\ kpc' = "key"
  /\ prev' = <<>>
  /\ UNCHANGED <<clock, total_words, correct_words, last_wpm, last_word_time,
                 session_start, last_ts, word_buffer, metrics_lock, now_k,
                 producer, gaps, erased, boundaries>>

\* lines 95-103: with metrics_lock, coming back from idle
on_press_resume ==
  /\ kpc = "resume"
  /\ metrics_lock = "free"
  /\ IF current_mode = "idle"
       THEN /\ current_mode' = "typing"
            /\ peak_wpm' = Zero
            /\ refresh_flag' = TRUE
            /\ word_events' = <<>>
       ELSE UNCHANGED <<current_mode, peak_wpm, refresh_flag, word_events>>
  /\ transitioned' = (transitioned \/ current_mode' # current_mode)
  /\ since' = IF current_mode = "idle" THEN <<>> ELSE since
  /\ shown' = IF current_mode = "idle" THEN 0 ELSE shown
  /\ kpc' = "key"
  /\ prev' = <<>>
  /\ UNCHANGED <<clock, total_words, correct_words, last_wpm, last_word_time,
                 session, word_buffer, metrics_lock, now_k, producer, gaps, erased,
                 boundaries>>

\* Mutant: the buffer is left as the boundary key found it.
ClearBuffer_Never == UNCHANGED word_buffer

\* line 138: word_buffer.clear()
ClearBuffer == word_buffer' = <<>>

\* lines 106-117 and 137-142: last_ts, then the key k itself
on_press_key(k) ==
  /\ kpc = "key"
  /\ last_ts' = Some(now_k)
  /\ prev' = <<>>
  /\ \/ /\ k \in Chars                        \* lines 110-112
        /\ word_buffer' = Append(word_buffer, k)
        /\ Return
     \/ /\ k = "char=None"                    \* line 111: ch is None
        /\ Return
        /\ UNCHANGED word_buffer
     \/ /\ k \in Boundary                     \* lines 116-118, 138
        /\ IF Strip(word_buffer) # <<>>
             THEN /\ kpc' = "word"
                  /\ UNCHANGED <<word_buffer, now_k>>
             ELSE /\ ClearBuffer
                  /\ Return
     \/ /\ k = "Key.backspace"                \* lines 140-142
        /\ word_buffer' = IF word_buffer # <<>>
                            THEN SubSeq(word_buffer, 1, Len(word_buffer) - 1)
                            ELSE word_buffer
        /\ Return
     \/ /\ k = "Key.shift"                    \* any other special key
        /\ Return
        /\ UNCHANGED word_buffer
  /\ boundaries' = IF k \in Boundary /\ \E i \in DOMAIN word_buffer : word_buffer[i] # " "
                     THEN boundaries + 1 ELSE boundaries
  /\ erased' = IF k = "Key.backspace" /\ word_buffer # <<>> THEN "yes"
               ELSE IF k \in Boundary /\ Strip(word_buffer) = <<>> THEN "blank"
               ELSE IF erased \in {"counted", "blank"} THEN "no"
               ELSE erased
  /\ UNCHANGED <<clock, engine, session_start, idle_time, metrics_lock, producer,
                 gaps, since, shown, transitioned>>

\* Mutant: the two counters are taken for each other.
CountWord_Swapped(w) ==
  /\ correct_words' = correct_words + 1
  /\ total_words' = IF InSpell(w) THEN total_words + 1 ELSE total_words

\* Mutant: the word is judged as it is typed; a corrected slip counts against it.
CountWord_Incremental(w) ==
  /\ total_words' = total_words + 1
  /\ correct_words' = IF InSpell(w) /\ erased # "yes" THEN correct_words + 1
                      ELSE correct_words

\* lines 121-123: count the word w
CountWord(w) ==
  /\ total_words' = total_words + 1
  /\ correct_words' = IF InSpell(w) THEN correct_words + 1 ELSE correct_words

\* Mutant: the word that starts a burst does not raise the flag.
WordTransition_NoFlag ==
  IF current_mode = "idle"
    THEN /\ current_mode' = "typing"
         /\ peak_wpm' = Zero
         /\ UNCHANGED refresh_flag
    ELSE UNCHANGED <<current_mode, peak_wpm, refresh_flag>>

\* lines 129-135: a word completed while idle starts a burst
WordTransition ==
  IF current_mode = "idle"
    THEN /\ current_mode' = "typing"
         /\ peak_wpm' = Zero
         /\ refresh_flag' = TRUE
    ELSE UNCHANGED <<current_mode, peak_wpm, refresh_flag>>

\* lines 119-138: with metrics_lock, the completed word; then clear the buffer
on_press_word ==
  /\ kpc = "word"
  /\ metrics_lock = "free"
  /\ CountWord(Strip(word_buffer))
  /\ word_events' = DequeAppend(word_events, now_k)
  /\ last_word_time' = now_k
  /\ WordTransition
  /\ transitioned' = (transitioned \/ current_mode' # current_mode)
  /\ since' = IF current_mode = "idle" THEN <<now_k>> ELSE Append(since, now_k)
  /\ shown' = 0
  /\ erased' = IF erased = "yes" THEN "counted" ELSE "no"
  /\ ClearBuffer
  /\ Return
  /\ prev' = <<>>
  /\ UNCHANGED <<clock, last_wpm, session, metrics_lock, producer, gaps,
                 boundaries>>

\* lines 119-122 when "w in spell" raises: the word is counted, the
\* exception leaves the with block, which releases the lock, and on_press;
\* nothing in on_press catches it and the listener thread ends with it
on_press_word_raises ==
  /\ kpc = "word"
  /\ metrics_lock = "free"
  /\ total_words' = total_words + 1
  /\ kpc' = "raised"
  /\ prev' = <<>>
  /\ UNCHANGED <<clock, correct_words, word_events, current_mode, peak_wpm,
                 last_wpm, last_word_time, refresh_flag, session, word_buffer,
                 metrics_lock, now_k, producer, gaps, erased, since, shown, boundaries, transitioned>>

\* ----------------------------------------------------- calculate_metrics
\* line 172
Recent(now) == SelectSeq(word_events, LAMBDA ts : now - ts <= SLIDING_WINDOW)

\* Mutant: the intervals between the words are counted, not the words.
WindowRate_Intervals(count, span) == Rat((count - 1) * 60, span)

\* line 192
WindowRate(count, span) == Rat(count * 60, span)

\* Mutant: reporting the frozen rate forgets it.
Wpm_Forget(recent, now, last) ==
  IF recent = <<>> THEN [wpm |-> Zero, last_wpm |-> last]
  ELSE LET most_recent_word == SeqMax(recent)
           word_count == Len(recent)
           span == most_recent_word - recent[1]
       IN  IF word_count >= 2
             THEN IF now - most_recent_word > INACTIVE_WPM_FREEZE
                    THEN [wpm |-> last, last_wpm |-> Zero]
                  ELSE IF span > 0
                    THEN [wpm |-> WindowRate(word_count, span),
                          last_wpm |-> WindowRate(word_count, span)]
                  ELSE [wpm |-> Zero, last_wpm |-> last]
             ELSE [wpm |-> Zero, last_wpm |-> last]

\* Mutant: with fewer than two recent words the last rate is shown.
Wpm_SingleWord(recent, now, last) ==
  IF recent = <<>> THEN [wpm |-> last, last_wpm |-> last]
  ELSE LET most_recent_word == SeqMax(recent)
           word_count == Len(recent)
           span == most_recent_word - recent[1]
       IN  IF word_count >= 2
             THEN IF now - most_recent_word > INACTIVE_WPM_FREEZE
                    THEN [wpm |-> last, last_wpm |-> last]
                  ELSE IF span > 0
                    THEN [wpm |-> WindowRate(word_count, span),
                          last_wpm |-> WindowRate(word_count, span)]
                  ELSE [wpm |-> Zero, last_wpm |-> last]
             ELSE [wpm |-> last, last_wpm |-> last]

\* lines 169-194: the rate reported and the new last_wpm, from the recent
\* timestamps, now and the old last_wpm

Wpm(recent, now, last) ==
  IF recent = <<>> THEN [wpm |-> Zero, last_wpm |-> last]
  ELSE LET most_recent_word == SeqMax(recent)
           time_since_last_word == now - most_recent_word
           word_count == Len(recent)
           span == most_recent_word - recent[1]
       IN  IF word_count >= 2
             THEN IF time_since_last_word > INACTIVE_WPM_FREEZE
                    THEN [wpm |-> last, last_wpm |-> last]
                  ELSE IF span > 0
                    THEN [wpm |-> WindowRate(word_count, span),
                          last_wpm |-> WindowRate(word_count, span)]
                  ELSE [wpm |-> Zero, last_wpm |-> last]
             ELSE [wpm |-> Zero, last_wpm |-> last]

\* Mutant: the peak is left as it was.
Peak_Stale(wpm, peak) == peak

\* lines 197-199
Peak(wpm, peak) == IF RatGT(wpm, peak) /\ RatGT(wpm, Zero) THEN wpm ELSE peak

\* Mutant: no words yet counts as nothing right.
Accuracy_ZeroWhenEmpty(correct, total) ==
  IF total > 0 THEN Rat(correct * 100, total) ELSE Zero

\* lines 202-204
Accuracy(correct, total) == IF total > 0 THEN Rat(correct * 100, total) ELSE <<100, 1>>

\* Mutant: idle at the threshold itself.
GoesIdle_AtThreshold(mode, now, ts) ==
  mode = "typing" /\ (IF Truthy(ts) THEN now - ts[1] >= IDLE_THRESHOLD ELSE TRUE)

\* line 208
GoesIdle(mode, now, ts) ==
  mode = "typing" /\ (IF Truthy(ts) THEN now - ts[1] > IDLE_THRESHOLD ELSE TRUE)

\* lines 160-161: take the lock; now = time.time()
calculate_metrics(d) ==
  /\ mpc = "idle"
  /\ metrics_lock = "free"
  /\ metrics_lock' = "producer"
  /\ TimeTime(d)
  /\ now_m' = clock'
  /\ mpc' = "rate"
  /\ prev' = IF prev # <<>> /\ prev[1].now = clock' THEN prev ELSE <<>>
  /\ UNCHANGED <<engine, session, word_buffer, listener, metrics, gaps, erased, since, shown,
                 boundaries, transitioned>>

\* lines 164-166
ActiveTime(now) ==
  IF Truthy(session_start) THEN now - session_start[1] - idle_time ELSE 0

\* lines 214-223: the payload, floats rounded to one decimal
Payload(mode, wpm, active, peak, flag) ==
  [mode |-> mode,
   wpm |-> Round1(wpm),
   accuracy |-> Round1(Accuracy(correct_words, total_words)),
   active_time |-> 10 * active,
   total_words |-> total_words,
   correct_words |-> correct_words,
   peak_wpm |-> Round1(peak),
   refresh |-> flag]

\* Mutant: the lock is kept after the return.
Release_Never == UNCHANGED metrics_lock

\* line 229: the return leaves the with block of line 160
Release == metrics_lock' = "free"

\* Mutant: the computation drops the timestamps that left the window.
calculate_metrics_rate_Prunes ==
  /\ mpc = "rate"
  /\ LET r == Wpm(Recent(now_m), now_m, last_wpm)
         peak == Peak(r.wpm, peak_wpm)
         idle == GoesIdle(current_mode, now_m, last_ts)
         mode == IF idle THEN "idle" ELSE current_mode
         flag == IF idle THEN TRUE ELSE refresh_flag
         m == Payload(mode, r.wpm, ActiveTime(now_m), peak, flag)
     IN  /\ last_wpm' = r.last_wpm
         /\ peak_wpm' = peak
         /\ current_mode' = mode
         /\ metrics' = <<m>>
         /\ refresh_flag' = FALSE
         /\ transitioned' = FALSE
         /\ shown' = IF mode # "typing" THEN 0
                     ELSE IF m.wpm > shown THEN m.wpm ELSE shown
         /\ prev' = IF prev = <<>>
                      THEN << [wpm |-> m.wpm, accuracy |-> m.accuracy,
                               peak_wpm |-> m.peak_wpm, now |-> now_m,
                               n |-> 1] >>
                      ELSE << [prev[1] EXCEPT !.n = 2] >>
  /\ word_events' = Recent(now_m)
  /\ Release
  /\ mpc' = "send"
  /\ UNCHANGED <<clock, total_words, correct_words, last_word_time,
                 session, word_buffer, listener, now_m, gaps, erased, since, boundaries>>

\* lines 163-229: active time, rate, peak, accuracy, mode, payload, flag;
\* release the lock
calculate_metrics_rate ==
  /\ mpc = "rate"
  /\ LET r == Wpm(Recent(now_m), now_m, last_wpm)
         peak == Peak(r.wpm, peak_wpm)
         idle == GoesIdle(current_mode, now_m, last_ts)
         mode == IF idle THEN "idle" ELSE current_mode
         flag == IF idle THEN TRUE ELSE refresh_flag
         m == Payload(mode, r.wpm, ActiveTime(now_m), peak, flag)
     IN  /\ last_wpm' = r.last_wpm
         /\ peak_wpm' = peak
         /\ current_mode' = mode
         /\ metrics' = <<m>>
         /\ refresh_flag' = FALSE
         /\ transitioned' = FALSE
         /\ shown' = IF mode # "typing" THEN 0
                     ELSE IF m.wpm > shown THEN m.wpm ELSE shown
         /\ prev' = IF prev = <<>>
                      THEN << [wpm |-> m.wpm, accuracy |-> m.accuracy,
                               peak_wpm |-> m.peak_wpm, now |-> now_m,
                               n |-> 1] >>
                      ELSE << [prev[1] EXCEPT !.n = 2] >>
  /\ Release
  /\ mpc' = "send"
  /\ UNCHANGED <<clock, total_words, correct_words, word_events, last_word_time,
                 session, word_buffer, listener, now_m, gaps, erased, since, boundaries>>

\* ------------------------------------------------------ metrics_producer
\* lines 245 and 255: the payload goes out to the client
metrics_producer_send ==
  /\ mpc = "send"
  /\ metrics' = <<>>
  /\ now_m' = 0
  /\ mpc' = "idle"
  /\ UNCHANGED <<clock, engine, session, word_buffer, metrics_lock, listener,
                 gaps, erased, since, shown, boundaries, transitioned, prev>>

\* lines 233-240: a client connects and its coroutine starts
program == <<clock, engine, session, word_buffer, metrics_lock, listener,
             producer, gaps, erased, since, shown, boundaries, transitioned, prev>>

\* Mutant: a new client waits for its first tick before anything is sent.
metrics_producer_WaitsFirst(c) ==
  /\ server = "serving"
  /\ mpc = "idle"
  /\ cpc[c] \in {"none", "done"}
  /\ active_connections' = active_connections \cup {c}
  /\ cpc' = [cpc EXCEPT ![c] = "sleep"]
  /\ UNCHANGED <<program, running, wire, server, listening>>

\* websockets.serve (line 283) starts one coroutine for every connection it
\* accepts, as long as it serves: c is a connection slot, free again once
\* its coroutine has ended.
metrics_producer(c) ==
  /\ server = "serving"
  /\ mpc = "idle"
  /\ cpc[c] \in {"none", "done"}
  /\ active_connections' = active_connections \cup {c}
  /\ cpc' = [cpc EXCEPT ![c] = "call"]
  /\ UNCHANGED <<program, running, wire, server, listening>>

\* lines 244 and 252: the coroutine of client c calls calculate_metrics
metrics_producer_call(c, d) ==
  /\ cpc[c] = "call"
  /\ calculate_metrics(d)
  /\ cpc' = [cpc EXCEPT ![c] = "calc"]
  /\ UNCHANGED <<running, active_connections, wire, server, listening>>

\* inside that call
metrics_producer_rate(c) ==
  /\ cpc[c] = "calc"
  /\ calculate_metrics_rate
  /\ UNCHANGED <<serving, display>>

\* lines 245 and 255: await websocket.send(json.dumps(metrics)) begins
metrics_producer_await(c) ==
  /\ cpc[c] = "calc"
  /\ metrics_producer_send
  /\ wire' = [wire EXCEPT ![c] = << [payload |-> metrics[1], now |-> now_m] >>]
  /\ cpc' = [cpc EXCEPT ![c] = "send"]
  /\ UNCHANGED <<running, active_connections, server, listening>>

\* Mutant: a failure empties the set of connections.
Finally_DropAll(c) ==
  /\ active_connections' = {}
  /\ cpc' = [cpc EXCEPT ![c] = "done"]

\* lines 257-265: the except clauses log, and finally the client is removed
Finally(c) ==
  /\ active_connections' = IF c \in active_connections
                             THEN active_connections \ {c}
                             ELSE active_connections
  /\ cpc' = [cpc EXCEPT ![c] = "done"]

\* line 248 after a send that returned: while running
send_returns(c) ==
  /\ server = "serving"
  /\ mpc = "idle"
  /\ cpc[c] = "send"
  /\ wire' = [wire EXCEPT ![c] = <<>>]
  /\ IF running
       THEN /\ cpc' = [cpc EXCEPT ![c] = "sleep"]
            /\ UNCHANGED active_connections
       ELSE Finally(c)
  /\ UNCHANGED <<program, running, server, listening>>

\* lines 257-260: the send raised ConnectionClosed or another exception
send_raises(c) ==
  /\ mpc = "idle"
  /\ cpc[c] = "send"
  /\ wire' = [wire EXCEPT ![c] = <<>>]
  /\ Finally(c)
  /\ UNCHANGED <<program, running, server, listening>>

\* line 249: asyncio.sleep(UPDATE_INTERVAL) is over
sleep_returns(c) ==
  /\ mpc = "idle"
  /\ cpc[c] = "sleep"
  /\ cpc' = [cpc EXCEPT ![c] = "call"]
  /\ UNCHANGED <<program, running, active_connections, wire, server, listening>>

\* ------------------------------------------------- start and shutdown
\* lines 144-147: the listener thread starts the pynput listener
keyboard_listener ==
  /\ listening = "unstarted"
  /\ listening' = "started"
  /\ UNCHANGED <<program, running, active_connections, cpc, wire, server>>

\* lines 149-153: while running is over; listener.stop()
keyboard_listener_stop ==
  /\ listening = "started"
  /\ ~running
  /\ listening' = "stopped"
  /\ UNCHANGED <<program, running, active_connections, cpc, wire, server>>

\* lines 267-283: the loop takes over SIGINT and SIGTERM and serves
start_server ==
  /\ server = "init"
  /\ server' = "serving"
  /\ UNCHANGED <<program, running, active_connections, cpc, wire, listening>>

\* lines 290-294: a signal while the handlers of lines 305-306 are in force
signal_handler ==
  /\ server = "init"
  /\ running' = FALSE
  /\ UNCHANGED <<program, active_connections, cpc, wire, server, listening>>

\* lines 273-275 and 283: a signal while the loop's handlers are in force
\* sets the future; leaving websockets.serve closes every connection
handle_stop ==
  /\ server = "serving"
  /\ mpc = "idle"
  /\ server' = "closing"
  /\ UNCHANGED <<program, running, active_connections, cpc, wire, listening>>

\* lines 283-286 and 314-323: every handler has ended; asyncio.run returns,
\* main sets running = False and the process ends, its daemon thread with it
main_finally ==
  /\ server = "closing"
  /\ mpc = "idle"
  /\ \A c \in Clients : cpc[c] \in {"none", "done"}
  /\ server' = "closed"
  /\ running' = FALSE
  /\ listening' = "stopped"
  /\ UNCHANGED <<program, active_connections, cpc, wire>>

\* ------------------------------------------- the display client (Pi side)
\* home_screen.py.  The messages a client can be sent: mode, wpm and peak_wpm
\* (tenths) and the refresh flag; the other fields are copied as they come.
WpmValues == {0, 120, 345, 500}
Messages ==
  [mode : {"typing", "idle"}, wpm : WpmValues, peak_wpm : WpmValues,
   refresh : BOOLEAN]

\* Mutant: the wpm of the message is shown as it comes.
StableWpm_Overwrites(data, seen) == data.wpm

\* lines 98-108: the wpm to show after the message data, when line 106
\* reads seen as self.mode
StableWpm(data, seen) ==
  IF data.mode = "typing"
    THEN IF data.wpm > 0 THEN data.wpm ELSE display_metrics.wpm
  ELSE IF data.mode = "idle" /\ seen = "typing" THEN last_active_wpm
  ELSE display_metrics.wpm

\* What line 106 can read as self.mode: the mode line 93 read or, when the
\* display loop (lines 391-395) ran in between, "idle".
Seen == {display_mode, "idle"}

\* lines 90-129 (called from on_ws_message, line 229)
update_from_message(data, seen) ==
  /\ is_connected
  /\ last_mode' = Some(display_mode)
  /\ display_metrics' = [wpm |-> StableWpm(data, seen), peak_wpm |-> data.peak_wpm]
  /\ last_active_wpm' = IF data.mode = "typing" /\ data.wpm > 0 THEN data.wpm
                        ELSE last_active_wpm
  /\ display_mode' = data.mode
  /\ do_full_flash' = (\/ do_full_flash \/ seen # display_mode
                        \/ data.mode # display_mode \/ data.refresh)
  /\ received' = IF data.mode = "typing" /\ data.wpm > 0 THEN data.wpm ELSE received
  /\ UNCHANGED is_connected

\* lines 245-248
on_ws_open ==
  /\ ~is_connected
  /\ is_connected' = TRUE
  /\ UNCHANGED <<display_mode, last_mode, do_full_flash, display_metrics,
                 last_active_wpm, received>>

\* lines 235-243: on_ws_error, on_ws_close
on_ws_close ==
  /\ is_connected
  /\ is_connected' = FALSE
  /\ UNCHANGED <<display_mode, last_mode, do_full_flash, display_metrics,
                 last_active_wpm, received>>

\* lines 391-395, the display loop: no connection, or (stale) no message
\* for CONNECTION_TIMEOUT seconds
main_stale(stale) ==
  /\ ~is_connected \/ stale
  /\ display_mode # "idle"
  /\ display_mode' = "idle"
  /\ do_full_flash' = TRUE
  /\ UNCHANGED <<last_mode, display_metrics, last_active_wpm, is_connected,
                 received>>

\* lines 398-399, the display loop: a periodic refresh is due
main_periodic ==
  /\ ~do_full_flash
  /\ do_full_flash' = TRUE
  /\ UNCHANGED <<display_mode, last_mode, display_metrics, last_active_wpm,
                 is_connected, received>>

\* lines 402-411, the display loop: the full refresh
main_full_refresh ==
  /\ do_full_flash
  /\ do_full_flash' = FALSE
  /\ UNCHANGED <<display_mode, last_mode, display_metrics, last_active_wpm,
                 is_connected, received>>

\* ------------------------------------------------------ the specification
\* Spec: any keys at any of the times that MaxTicks advances of the clock
\* reach, payloads computed at any time.
\* The server is up and the listener delivers keys.  In Spec, SpecPause and
\* SpecBurst one client's loop calls calculate_metrics; its place in
\* active_connections plays no part and is left out.
Up ==
  /\ server = "serving" /\ listening = "started"
  /\ cpc = [c \in Clients |-> "none"]
  /\ wire = [c \in Clients |-> <<>>]

Init == Start /\ Up /\ gaps = <<>>

Advances == {0} \cup (IF ticks < MaxTicks THEN TickSteps ELSE {})
Counted(d) == ticks' = IF d > 0 THEN ticks + 1 ELSE ticks

\* The keys the listener is driven with: the buffer and the word count stay
\* within the bounds.
Typed ==
  {k \in Keys :
     /\ k \in Chars => Len(word_buffer) < MaxBuf
     /\ (k \in Boundary /\ Strip(word_buffer) # <<>>) => total_words < MaxWords}

Next ==
  \/ \E d \in Advances : on_press(d) /\ Counted(d) /\ UNCHANGED <<serving, display>>
  \/ on_press_session /\ UNCHANGED <<ticks, serving, display>>
  \/ on_press_gap /\ UNCHANGED <<ticks, serving, display>>
  \/ on_press_resume /\ UNCHANGED <<ticks, serving, display>>
  \/ \E k \in Typed : on_press_key(k) /\ UNCHANGED <<ticks, serving, display>>
  \/ on_press_word /\ UNCHANGED <<ticks, serving, display>>
  \/ \E d \in Advances : calculate_metrics(d) /\ Counted(d) /\ UNCHANGED <<serving, display>>
  \/ calculate_metrics_rate /\ UNCHANGED <<ticks, serving, display>>
  \/ metrics_producer_send /\ UNCHANGED <<ticks, serving, display>>

Spec == Init /\ [][Next]_vars

\* SpecEdit: the listener is driven with every kind of key, without a pause,
\* and with a longer buffer; payloads are computed at the same instant.
EditTyped ==
  {k \in Keys :
     /\ k \in Chars => Len(word_buffer) < MaxEdit
     /\ (k \in Boundary /\ Strip(word_buffer) # <<>>) => total_words < MaxWords}

NextEdit ==
  \/ on_press(0) /\ UNCHANGED <<ticks, serving, display>>
  \/ on_press_session /\ UNCHANGED <<ticks, serving, display>>
  \/ \E k \in EditTyped : on_press_key(k) /\ UNCHANGED <<ticks, serving, display>>
  \/ on_press_word /\ UNCHANGED <<ticks, serving, display>>
  \/ calculate_metrics(0) /\ UNCHANGED <<ticks, serving, display>>
  \/ calculate_metrics_rate /\ UNCHANGED <<ticks, serving, display>>
  \/ metrics_producer_send /\ UNCHANGED <<ticks, serving, display>>

SpecEdit == Init /\ [][NextEdit]_vars

\* SpecDisplay: the display client alone, sent every sequence of messages.
NextDisplay ==
  \/ \E data \in Messages, seen \in Seen :
       update_from_message(data, seen) /\ UNCHANGED <<program, serving, ticks>>
  \/ on_ws_open /\ UNCHANGED <<program, serving, ticks>>
  \/ on_ws_close /\ UNCHANGED <<program, serving, ticks>>
  \/ \E stale \in BOOLEAN : main_stale(stale) /\ UNCHANGED <<program, serving, ticks>>
  \/ main_periodic /\ UNCHANGED <<program, serving, ticks>>
  \/ main_full_refresh /\ UNCHANGED <<program, serving, ticks>>

SpecDisplay == Init /\ [][NextDisplay]_vars

\* SpecLookup: Spec with a dictionary whose lookup can raise.
NextLookup ==
  \/ Next
  \/ on_press_word_raises /\ UNCHANGED <<ticks, serving, display>>

SpecLookup == Init /\ [][NextLookup]_vars

\* SpecPause: up to MaxWords one-letter words and a key that is no part of
\* a word, at any of the times that MaxPauses advances of the clock reach;
\* payloads computed at any time.
Pauses == {0} \cup (IF ticks < MaxPauses THEN PauseSteps ELSE {})
PauseKey ==
  IF word_buffer # <<>> THEN {"Key.space"}
  ELSE {"Key.shift"} \cup (IF total_words < MaxWords THEN {"a"} ELSE {})

NextPause ==
  \/ \E d \in Pauses : on_press(d) /\ Counted(d) /\ UNCHANGED <<serving, display>>
  \/ on_press_session /\ UNCHANGED <<ticks, serving, display>>
  \/ on_press_gap /\ UNCHANGED <<ticks, serving, display>>
  \/ on_press_resume /\ UNCHANGED <<ticks, serving, display>>
  \/ \E k \in PauseKey : on_press_key(k) /\ UNCHANGED <<ticks, serving, display>>
  \/ on_press_word /\ UNCHANGED <<ticks, serving, display>>
  \/ \E d \in Pauses : calculate_metrics(d) /\ Counted(d) /\ UNCHANGED <<serving, display>>
  \/ calculate_metrics_rate /\ UNCHANGED <<ticks, serving, display>>
  \/ metrics_producer_send /\ UNCHANGED <<ticks, serving, display>>

SpecPause == Init /\ [][NextPause]_vars

\* SpecServe: main from line 308 on: the listener thread and the server
\* start, the clients connect, each once, and signals arrive; one
\* one-letter word is typed, then keys that are no part of a word; the
\* clock is read at the instants ServeTimes, too close for an idle gap.
InitServe ==
  /\ Start /\ gaps = <<>>
  /\ server = "init" /\ listening = "unstarted"
  /\ cpc = [c \in Clients |-> "none"]
  /\ wire = [c \in Clients |-> <<>>]

ServeTimes == {1, 6}
ServeAdvances == {d \in {0, 5} : clock + d \in ServeTimes}
ServeKey ==
  IF word_buffer # <<>> THEN {"Key.space"}
  ELSE IF total_words = 0 THEN {"a"} ELSE {"Key.shift"}

\* The process is there to run on_press.
Alive == server # "closed"

\* The listener thread goes on with the call it is in.
Listener ==
  \/ Alive /\ on_press_session /\ UNCHANGED <<ticks, serving, display>>
  \/ \E k \in ServeKey : Alive /\ on_press_key(k) /\ UNCHANGED <<ticks, serving, display>>
  \/ Alive /\ on_press_word /\ UNCHANGED <<ticks, serving, display>>

\* The event loop runs the coroutine of client c.
Loop(c) ==
  \/ \E d \in ServeAdvances : metrics_producer_call(c, d) /\ UNCHANGED <<ticks, display>>
  \/ metrics_producer_rate(c) /\ UNCHANGED <<ticks, display>>
  \/ metrics_producer_await(c) /\ UNCHANGED <<ticks, display>>
  \/ send_returns(c) /\ UNCHANGED <<ticks, display>>
  \/ send_raises(c) /\ UNCHANGED <<ticks, display>>
  \/ sleep_returns(c) /\ UNCHANGED <<ticks, display>>

\* The main thread and the listener thread start and end.
Boot ==
  \/ keyboard_listener /\ UNCHANGED <<ticks, display>>
  \/ keyboard_listener_stop /\ UNCHANGED <<ticks, display>>
  \/ start_server /\ UNCHANGED <<ticks, display>>
  \/ main_finally /\ UNCHANGED <<ticks, display>>

\* What the user, the clients and the operator do.
Outside ==
  \/ \E d \in ServeAdvances :
       listening = "started" /\ on_press(d) /\ UNCHANGED <<ticks, serving, display>>
  \/ \E c \in Clients : metrics_producer(c) /\ UNCHANGED <<ticks, display>>
  \/ signal_handler /\ UNCHANGED <<ticks, display>>
  \/ handle_stop /\ UNCHANGED <<ticks, display>>

NextServe == Listener \/ (\E c \in Clients : Loop(c)) \/ Boot \/ Outside

\* The threads keep running, and the event loop runs every coroutine that
\* is ready in its turn.
Fairness ==
  /\ WF_vars(Listener)
  /\ WF_vars(Boot)
  /\ \A c \in Clients : SF_vars(Loop(c))

SpecServe == InitServe /\ [][NextServe]_vars /\ Fairness

\* SpecBurst: one burst of MAX_WORD_EVENTS + 1 one-letter words, each typed
\* and completed at its instant, the first at the start and word i + 1
\* gaps[i] seconds after word i; no other key.  A payload is computed when a
\* client connects or its loop wakes: at the instant of the previous clock
\* reading, or one or six seconds after it, until BurstTail seconds after
\* the last word.
BurstGaps == {0, 7, 10}
BurstWords == MAX_WORD_EVENTS + 1

InitBurst == Start /\ Up /\ gaps \in [1..MAX_WORD_EVENTS -> BurstGaps]

RECURSIVE Due(_)
Due(i) == IF i = 1 THEN 1 ELSE Due(i - 1) + gaps[i - 1]

BurstPress == IF total_words < BurstWords THEN {Due(total_words + 1) - clock} ELSE {}
BurstKey == IF word_buffer = <<>> THEN {"a"} ELSE {"Key.space"}
BurstRead ==
  {d \in {0, 1, 6} :
     clock + d <= IF total_words < BurstWords THEN Due(total_words + 1)
                  ELSE Due(BurstWords) + BurstTail}

NextBurst ==
  \/ \E d \in BurstPress : on_press(d) /\ UNCHANGED <<ticks, serving, display>>
  \/ on_press_session /\ UNCHANGED <<ticks, serving, display>>
  \/ \E k \in BurstKey : on_press_key(k) /\ UNCHANGED <<ticks, serving, display>>
  \/ on_press_word /\ UNCHANGED <<ticks, serving, display>>
  \/ \E d \in BurstRead : calculate_metrics(d) /\ UNCHANGED <<ticks, serving, display>>
  \/ calculate_metrics_rate /\ UNCHANGED <<ticks, serving, display>>
  \/ metrics_producer_send /\ UNCHANGED <<ticks, serving, display>>

SpecBurst == InitBurst /\ [][NextBurst]_vars

\* SpecScript: the same script of one-letter words with pauses in it: a gap
\* of exactly IDLE_THRESHOLD seconds, a longer one, a short one and none, so
\* that on_press meets each case of its idle-gap test.  A payload is computed
\* at the instant of the previous clock reading, or ten or thirty-one
\* seconds after it.
ScriptGaps == {0, 10, 30, 31}

InitScript == Start /\ Up /\ gaps \in [1..MAX_WORD_EVENTS -> ScriptGaps]

ScriptRead ==
  {d \in {0, 10, 31} :
     clock + d <= IF total_words < BurstWords THEN Due(total_words + 1)
                  ELSE Due(BurstWords) + BurstTail}

NextScript ==
  \/ \E d \in BurstPress : on_press(d) /\ UNCHANGED <<ticks, serving, display>>
  \/ on_press_session /\ UNCHANGED <<ticks, serving, display>>
  \/ on_press_gap /\ UNCHANGED <<ticks, serving, display>>
  \/ on_press_resume /\ UNCHANGED <<ticks, serving, display>>
  \/ \E k \in BurstKey : on_press_key(k) /\ UNCHANGED <<ticks, serving, display>>
  \/ on_press_word /\ UNCHANGED <<ticks, serving, display>>
  \/ \E d \in ScriptRead : calculate_metrics(d) /\ UNCHANGED <<ticks, serving, display>>
  \/ calculate_metrics_rate /\ UNCHANGED <<ticks, serving, display>>
  \/ metrics_producer_send /\ UNCHANGED <<ticks, serving, display>>

SpecScript == InitScript /\ [][NextScript]_vars


\* ================================================================ claims
\* A step of calculate_metrics_rate: the payload is computed and returned.
Computes == mpc = "rate" /\ mpc' = "send"
Abs(x) == IF x < 0 THEN 0 - x ELSE x
\* r tenths is n/d rounded to one decimal.
IsRounded(r, n, d) == 2 * Abs(r * d - 10 * n) <= d

\* C1: whenever on_press is not between lines 118 and 121, total_words is the
\* number of boundary keys (space, enter) that found a non-whitespace
\* character in the word buffer; a boundary key on an empty or blank buffer
\* adds nothing.
C1_TotalWords ==
  total_words = IF kpc = "word" THEN boundaries - 1 ELSE boundaries

C1_Witness ==
  kpc = "idle" /\ boundaries = 2 /\ total_words = 2 /\ correct_words = 1

\* C2: in every state, and in every payload, 0 <= correct_words <= total_words.
C2_CorrectAtMostTotal ==
  /\ 0 <= correct_words /\ correct_words <= total_words
  /\ metrics # <<>> =>
       0 <= metrics[1].correct_words /\ metrics[1].correct_words <= metrics[1].total_words

C2_Witness ==
  metrics # <<>> /\ metrics[1].total_words = 2 /\ metrics[1].correct_words = 0


\* The positions of word_events whose timestamps lie within SLIDING_WINDOW
\* of now.
InWindow(now) == {i \in DOMAIN word_events : now - word_events[i] <= SLIDING_WINDOW}
Newest(now) == CHOOSE t \in {word_events[i] : i \in InWindow(now)} :
                 \A i \in InWindow(now) : word_events[i] <= t
Oldest(now) == CHOOSE t \in {word_events[i] : i \in InWindow(now)} :
                 \A i \in InWindow(now) : t <= word_events[i]

\* C3: a payload computed with at least 2 timestamps in the window, the
\* newest at most INACTIVE_WPM_FREEZE old and span = newest - oldest > 0
\* reports (count / span) * 60 to one decimal, and last_wpm becomes exactly
\* (count / span) * 60.
C3_WindowedRate ==
  [][(/\ Computes
      /\ Cardinality(InWindow(now_m)) >= 2
      /\ now_m - Newest(now_m) <= INACTIVE_WPM_FREEZE
      /\ Newest(now_m) > Oldest(now_m))
     => LET n == Cardinality(InWindow(now_m))
            span == Newest(now_m) - Oldest(now_m)
        IN  /\ IsRounded(metrics'[1].wpm, n * 60, span)
            /\ last_wpm'[1] * span = n * 60 * last_wpm'[2]]_vars

\* Words at t = 0, 10, 20 after the start: the payload computed at t = 20
\* reports 9.0.
C3_Witness ==
  /\ mpc = "send" /\ now_m = 21
  /\ word_events = <<1, 11, 21>>
  /\ metrics[1].wpm = 90
  /\ last_wpm = <<9, 1>>


\* C4: words completed at t = 0, 10 and 20 after the start and nothing
\* since: the payload computed at t = 26 reports 9.0, whatever payloads
\* were computed before.
C4_FrozenRate ==
  (/\ mpc = "send" /\ now_m = 27
   /\ gaps[1] = 10 /\ gaps[2] = 10
   /\ total_words = 3 /\ kpc = "idle" /\ word_buffer = <<>>)
  => metrics[1].wpm = 90

\* C5: a payload computed in typing mode stays typing when now is at most
\* IDLE_THRESHOLD after the last keystroke, and otherwise goes idle and
\* carries refresh = true; a payload computed in idle mode is idle with
\* refresh = false.  The age of the last word plays no part.
C5_IdleAfterThreshold ==
  [][Computes =>
       LET m == metrics'[1] IN
       /\ (current_mode = "typing" /\ last_ts # None
             /\ now_m - last_ts[1] <= IDLE_THRESHOLD)
            => current_mode' = "typing" /\ m.mode = "typing"
       /\ (current_mode = "typing" /\ last_ts # None
             /\ now_m - last_ts[1] > IDLE_THRESHOLD)
            => current_mode' = "idle" /\ m.mode = "idle" /\ m.refresh
       /\ current_mode = "idle"
            => current_mode' = "idle" /\ m.mode = "idle" /\ ~m.refresh]_vars

\* The payload after the one that went idle, the rate frozen: a word typed,
\* the last keystroke more than IDLE_THRESHOLD ago.
C5_Witness ==
  /\ mpc = "send"
  /\ metrics[1].mode = "idle" /\ ~metrics[1].refresh
  /\ metrics[1].total_words > 0
  /\ last_ts # None /\ now_m - last_ts[1] > IDLE_THRESHOLD
  /\ now_m - last_word_time > INACTIVE_WPM_FREEZE
  /\ kpc = "idle"

\* C6: a payload carries refresh = true exactly when the mode changed after
\* the payload before it was computed, the change this computation makes
\* included; the flag is false once a payload is computed.
C6_RefreshOneShot ==
  [][Computes =>
       /\ metrics'[1].refresh <=> (transitioned \/ current_mode' # current_mode)
       /\ ~refresh_flag']_vars

\* A payload that reports the start of a burst.
C6_Witness ==
  /\ mpc = "send"
  /\ metrics[1].refresh /\ metrics[1].mode = "typing"
  /\ ~refresh_flag

\* C7: a payload computed at the instant of the one before, no keystroke
\* handled in between, carries the same wpm, accuracy and peak_wpm.
C7_SameInstantSamePayload ==
  (metrics # <<>> /\ prev # <<>> /\ prev[1].n = 2)
    => /\ metrics[1].wpm = prev[1].wpm
       /\ metrics[1].accuracy = prev[1].accuracy
       /\ metrics[1].peak_wpm = prev[1].peak_wpm

\* The second of two payloads at one instant, the rate frozen and not zero.
C7_Witness ==
  /\ metrics # <<>> /\ prev # <<>> /\ prev[1].n = 2
  /\ metrics[1].wpm > 0
  /\ now_m - last_word_time > INACTIVE_WPM_FREEZE

\* C8: word_events never holds more than MAX_WORD_EVENTS timestamps; up to
\* MAX_WORD_EVENTS words it holds them all in order, and the word after
\* that pushes out the oldest alone.
C8_BoundedWindow ==
  /\ Len(word_events) <= MAX_WORD_EVENTS
  /\ total_words <= MAX_WORD_EVENTS
       => word_events = [i \in 1..total_words |-> Due(i)]
  /\ total_words = MAX_WORD_EVENTS + 1
       => word_events = [i \in 1..MAX_WORD_EVENTS |-> Due(i + 1)]

\* The deque after the append that found it full, the first word gone.
C8_Witness ==
  /\ total_words = MAX_WORD_EVENTS + 1
  /\ Len(word_events) = MAX_WORD_EVENTS
  /\ gaps[1] > 0
  /\ word_events[1] = Due(2)
  /\ word_events[MAX_WORD_EVENTS] = Due(MAX_WORD_EVENTS + 1)

\* C9: a payload carries accuracy 100.0 when it counts no word, and
\* otherwise correct_words / total_words * 100 to one decimal: between 0
\* and 100.
C9_Accuracy ==
  metrics # <<>> =>
    LET m == metrics[1] IN
    /\ m.total_words = 0 => m.accuracy = 1000
    /\ m.total_words > 0
         => IsRounded(m.accuracy, m.correct_words * 100, m.total_words)
    /\ 0 <= m.accuracy /\ m.accuracy <= 1000

\* One word of two is in the dictionary: 50.0.
C9_Witness ==
  /\ metrics # <<>>
  /\ metrics[1].total_words = 2 /\ metrics[1].correct_words = 1
  /\ metrics[1].accuracy = 500

\* C10: one on_press call makes all its updates in one critical section of
\* metrics_lock, so no payload is computed while a call has made some of
\* its updates and not the others: after idle_time and before the return
\* from idle, or after last_ts and before the word is counted.
C10_OneCriticalSection ==
  [][Computes => kpc \notin {"resume", "word"}]_vars

\* C11: one payload is computed for a tick and goes to every subscriber, so
\* two clients that are being sent payloads computed at the same instant
\* are being sent the same payload.
C11_OneSnapshotPerTick ==
  \A c1, c2 \in Clients :
    (/\ wire[c1] # <<>> /\ wire[c2] # <<>>
     /\ wire[c1][1].now = wire[c2][1].now)
    => wire[c1][1].payload = wire[c2][1].payload

\* C12: a send to client c that fails takes c out of active_connections
\* and ends the coroutine of c; the other clients stay in the set, their
\* coroutines and their sends are untouched and the server goes on; and a
\* client that sleeps while the server serves gets to its next send.
C12_FailureIsLocal ==
  /\ [][\A c \in Clients :
          (cpc[c] = "send" /\ cpc'[c] = "done")
          => /\ active_connections' = active_connections \ {c}
             /\ \A o \in Clients \ {c} : cpc'[o] = cpc[o] /\ wire'[o] = wire[o]
             /\ server' = server /\ running' = running]_vars
  /\ \A o \in Clients :
       (cpc[o] = "sleep" /\ server = "serving")
         ~> (cpc[o] = "send" \/ server # "serving")

\* Client 1 is gone after a failed send; client 2 is subscribed and is being
\* sent a payload.
C12_Witness ==
  /\ cpc[1] = "done" /\ running /\ server = "serving"
  /\ active_connections = {2}
  /\ cpc[2] = "send" /\ wire[2] # <<>>

\* C13: a client that connects is put in active_connections and goes
\* straight to a call of calculate_metrics; what it is sent is the payload
\* that call returned; it gets to that send whatever the other coroutines
\* do; and it sleeps only after a send of its own has returned.
C13_SnapshotOnSubscribe ==
  /\ [][\A c \in Clients :
          /\ (cpc[c] = "none" /\ cpc'[c] # "none")
               => c \in active_connections' /\ cpc'[c] = "call"
          /\ (wire[c] = <<>> /\ wire'[c] # <<>>)
               => /\ cpc[c] = "calc" /\ c \in active_connections
                  /\ wire'[c][1].payload = metrics[1]
                  /\ wire'[c][1].now = now_m
          /\ (cpc[c] # "sleep" /\ cpc'[c] = "sleep")
               => cpc[c] = "send" /\ wire[c] # <<>>]_vars
  /\ \A c \in Clients : (cpc[c] = "call") ~> (cpc[c] = "send")

\* Client 2 is being sent a payload while client 1 sleeps until its tick.
C13_Witness ==
  /\ cpc[1] = "sleep"
  /\ cpc[2] = "send" /\ wire[2] # <<>>
  /\ active_connections = {1, 2}

C15_LookupFailureTolerated ==
  [][(kpc = "word" /\ kpc' # "word")
       => /\ total_words' = total_words + 1
          /\ correct_words' \in {correct_words, correct_words + 1}
          /\ word_events' # <<>>
          /\ word_events'[Len(word_events')] = now_k
          /\ current_mode' = "typing"
          /\ word_buffer' = <<>>
          /\ metrics_lock' = "free"
          /\ kpc' = "idle"]_vars

\* C16: every step that takes the mode from idle to typing leaves peak_wpm
\* 0 and leaves in word_events no timestamp older than the keystroke that
\* made the step, whatever calculate_metrics did in between.
C16_FreshBurst ==
  [][(current_mode = "idle" /\ current_mode' = "typing")
       => /\ peak_wpm' = Zero
          /\ \A i \in DOMAIN word_events' : word_events'[i] >= now_k]_vars

\* The keystroke instants of the script that on_press has handled to the
\* end: a letter in the buffer belongs to the word after the counted ones.
Handled == total_words + (IF word_buffer # <<>> THEN 1 ELSE 0)
\* The idle time of the script up to its m-th instant: the sum of the gaps
\* above IDLE_THRESHOLD.
RECURSIVE IdleOf(_)
IdleOf(m) ==
  IF m <= 1 THEN 0
  ELSE IdleOf(m - 1) + (IF gaps[m - 1] > IDLE_THRESHOLD THEN gaps[m - 1] ELSE 0)

\* C17: for every script of keystrokes, once on_press has returned, the
\* first keystroke has set session_start, last_ts is the instant of the
\* latest keystroke, and idle_time is the sum of the gaps between successive
\* keystrokes that are greater than IDLE_THRESHOLD (a gap of exactly
\* IDLE_THRESHOLD adds nothing); and the active_time of every payload is
\* now - session_start - idle_time, or 0 before any keystroke.
C17_ActivityClock ==
  /\ [](kpc = "idle" =>
          IF Handled = 0
            THEN session_start = None /\ last_ts = None /\ idle_time = 0
            ELSE /\ session_start = Some(Due(1))
                 /\ last_ts = Some(Due(Handled))
                 /\ idle_time = IdleOf(Handled))
  /\ [][Computes =>
          metrics'[1].active_time =
            IF session_start = None THEN 0
            ELSE 10 * (now_m - session_start[1] - idle_time)]_vars

C17_Witness ==
  /\ kpc = "idle" /\ mpc = "send"
  /\ Handled = 4 /\ SubSeq(gaps, 1, 3) = <<30, 31, 10>>
  /\ idle_time = 31
  /\ metrics[1].active_time = 10 * (Due(4) - 1 - 31)

\* C18: in every step idle_time does not decrease, and session_start, once
\* the first keystroke has set it, keeps its value: no mode transition and
\* no computation of a payload resets either.
C18_ClockOnlyGrows ==
  [][/\ idle_time' >= idle_time
     /\ session_start # None => session_start' = session_start]_vars

C18_Witness ==
  /\ session_start = Some(1) /\ idle_time = 31
  /\ current_mode = "idle"
  /\ mpc = "send" /\ metrics[1].mode = "idle" /\ metrics[1].refresh

\* A shutdown signal has been delivered: signal_handler has cleared running,
\* or handle_stop has set the stop future.
Signalled == ~running \/ server \in {"closing", "closed"}
\* The listener is stopped, no metrics_producer coroutine is running, and no
\* payload is being computed or sent.
Quiet ==
  /\ listening = "stopped"
  /\ \A c \in Clients : cpc[c] \in {"none", "done"}
  /\ mpc = "idle"

\* C19: after a shutdown signal (SIGINT or SIGTERM) is delivered, eventually
\* the keyboard listener is stopped, every metrics_producer loop has ended,
\* and from then on no payload is computed or sent.
C19_ShutdownStopsAll == Signalled ~> [](Quiet)

\* C20: a payload computed with at least 2 timestamps in the window, the
\* newest at most INACTIVE_WPM_FREEZE old, and span = 0 (all of them at one
\* instant) reports last_wpm as its wpm.
C20_ZeroSpanKeepsRate ==
  [][(/\ Computes
      /\ Cardinality(InWindow(now_m)) >= 2
      /\ now_m - Newest(now_m) <= INACTIVE_WPM_FREEZE
      /\ Newest(now_m) = Oldest(now_m))
     => metrics'[1].wpm = Round1(last_wpm)]_vars

\* C21: a payload computed with fewer than two timestamps of word_events
\* within SLIDING_WINDOW of now reports wpm = 0, and the computation leaves
\* last_wpm as it was.
C21_SingleWordNoRate ==
  [][(Computes /\ Cardinality(InWindow(now_m)) < 2)
     => metrics'[1].wpm = 0 /\ last_wpm' = last_wpm]_vars

\* One word in the window after an earlier burst left a rate behind.
C21_Witness ==
  /\ mpc = "send" /\ kpc = "idle"
  /\ Len(word_events) = 1 /\ now_m - word_events[1] <= SLIDING_WINDOW
  /\ RatGT(last_wpm, Zero)
  /\ metrics[1].wpm = 0

\* The windowed rates (count / span * 60) of the runs of two or more
\* successive words of s with a positive span, in tenths.
RatesOf(s) ==
  {Round1(Rat((j - i + 1) * 60, s[j] - s[i])) :
     <<i, j>> \in {q \in (DOMAIN s) \X (DOMAIN s) : q[1] < q[2] /\ s[q[2]] > s[q[1]]}}
\* The highest of them, 0 when there is none.
BestRate(s) ==
  IF RatesOf(s) = {} THEN 0
  ELSE CHOOSE r \in RatesOf(s) : \A q \in RatesOf(s) : q <= r

\* C22: in every payload, peak_wpm and wpm are at most the highest windowed
\* rate attained by the words completed since the mode last became
\* "typing": a last_wpm computed in an earlier burst is never the wpm or the
\* peak_wpm reported in a later one.
C22_PeakOfThisBurst ==
  [][Computes =>
       /\ metrics'[1].peak_wpm <= BestRate(since)
       /\ metrics'[1].wpm <= BestRate(since)]_vars

\* C23: while no new word is completed and the mode stays "typing", no
\* payload reports a wpm lower than an earlier payload computed after the
\* last word: the rate does not decay, also when older words leave the
\* SLIDING_WINDOW.
C23_NoDecay ==
  [][(Computes /\ current_mode = "typing" /\ current_mode' = "typing")
     => metrics'[1].wpm >= shown]_vars

\* C24: a step of calculate_metrics (taking the lock, computing, handing the
\* payload over) changes none of total_words, correct_words, word_buffer,
\* word_events, session_start, idle_time and last_ts; of the rest it may
\* change last_wpm, peak_wpm, refresh_flag, and current_mode only from
\* "typing" to "idle".
C24_ComputationFrame ==
  [][mpc' # mpc =>
       /\ UNCHANGED <<total_words, correct_words, word_buffer, word_events,
                      session_start, idle_time, last_ts, last_word_time>>
       /\ current_mode' # current_mode =>
            current_mode = "typing" /\ current_mode' = "idle"]_vars

\* A payload that took the mode to "idle" with words in the window, one of
\* them older than SLIDING_WINDOW, and a rate kept.
C24_Witness ==
  /\ mpc = "send" /\ kpc = "idle"
  /\ current_mode = "idle" /\ metrics[1].refresh
  /\ Len(word_events) >= 2 /\ now_m - word_events[1] > SLIDING_WINDOW
  /\ RatGT(last_wpm, Zero) /\ RatGT(peak_wpm, Zero)
  /\ total_words >= 2 /\ session_start # None

\* C25: what a boundary key adds to total_words and correct_words is a
\* function of the word buffer it finds: nothing when the stripped buffer is
\* empty, else one word, correct when the stripped buffer is in the
\* dictionary.  Characters a backspace removed before have no part in it.
C25_FinalBufferDecides ==
  [][/\ (kpc = "key" /\ kpc' = "word") =>
          Strip(word_buffer) # <<>> /\ UNCHANGED <<total_words, correct_words>>
     /\ (kpc = "key" /\ kpc' = "idle") =>
          UNCHANGED <<total_words, correct_words>>
     /\ (kpc = "word" /\ kpc' = "idle") =>
          /\ total_words' = total_words + 1
          /\ correct_words' = correct_words +
               (IF InSpell(Strip(word_buffer)) THEN 1 ELSE 0)]_vars

\* A word typed with a slip that was erased ("x", backspace, "a") has been
\* counted, and counted correct.
C25_Witness ==
  /\ kpc = "idle" /\ erased = "counted" /\ word_buffer = <<>>
  /\ total_words = 1 /\ correct_words = 1

\* C26: a backspace or a boundary key that finds the buffer empty leaves
\* total_words, correct_words and word_events as they were and starts no
\* word; and the handler of a boundary key leaves the buffer empty, whether
\* it counted a word (the step from line 119 on) or not.
C26_EmptyBufferKeys ==
  [][/\ \A k \in Boundary \cup {"Key.backspace"} :
          (on_press_key(k) /\ word_buffer = <<>>) =>
             /\ UNCHANGED <<total_words, correct_words, word_events, boundaries>>
             /\ kpc' = "idle" /\ word_buffer' = <<>>
     /\ \A k \in Boundary :
          on_press_key(k) => (kpc' = "word" \/ word_buffer' = <<>>)
     /\ (kpc = "word" /\ kpc' = "idle") => word_buffer' = <<>>]_vars

\* After a word, a boundary key has found nothing to count: the counters
\* and the window stand as the word left them, and the buffer is empty.
C26_Witness ==
  /\ kpc = "idle" /\ erased = "blank" /\ word_buffer = <<>>
  /\ total_words = 1 /\ boundaries = 1 /\ Len(word_events) = 1

\* C27: when on_press has dealt with a gap longer than IDLE_THRESHOLD (lines
\* 92-103), the mode is "typing", peak_wpm is 0 and word_events holds no
\* timestamp from before the keystroke, whether or not a payload was
\* computed during the gap.
C27_PauseEndsBurst ==
  [][(kpc = "resume" /\ kpc' = "key") =>
       /\ current_mode' = "typing"
       /\ peak_wpm' = Zero
       /\ \A i \in DOMAIN word_events' : word_events'[i] >= now_k]_vars

\* C28: in the display client, after every sequence of messages, the wpm
\* shown (metrics['wpm']) is the last positive wpm received in a message
\* with mode "typing", or 0 when there was none: a wpm of 0 does not
\* overwrite it, and the change from typing to idle keeps it.
C28_DisplayedWpm ==
  display_metrics.wpm = received /\ last_active_wpm = received

\* The client went idle, by a message, after a rate of 34.5 was shown, and
\* has had a further idle message since.
C28_Witness ==
  /\ display_mode = "idle" /\ last_mode = Some("idle")
  /\ received = 345 /\ display_metrics.wpm = 345
  /\ display_metrics.peak_wpm = 0

\* C29: a mode transition raises the refresh flag for every subscriber: a
\* client that is subscribed and between two ticks when the flag is up is
\* sent a payload with refresh = true, unless it is unsubscribed or the
\* server stops before its next tick; the payload of another subscriber
\* does not use the flag up.
Subscribed(c) == c \in active_connections /\ cpc[c] = "sleep"

Refreshed(c) == wire[c] # <<>> /\ wire[c][1].payload.refresh

C29_RefreshReachesAll ==
  \A c \in Clients :
    (refresh_flag /\ Subscribed(c))
      ~> (Refreshed(c) \/ c \notin active_connections \/ Signalled)

\* C30: once on_press has returned from a keystroke that ended a gap longer
\* than IDLE_THRESHOLD, every payload computed from then on, at a time
\* within IDLE_THRESHOLD of that keystroke, has mode "typing", however the
\* handler and the computations were interleaved.  (prev # <<>>: a payload
\* was computed at this instant after the handler's last step, so this
\* computation began after on_press had returned.)
EndedGap == Handled >= 2 /\ gaps[Handled - 1] > IDLE_THRESHOLD

C30_TypingAfterResume ==
  [][(/\ Computes /\ kpc = "idle" /\ prev # <<>>
      /\ EndedGap
      /\ now_m >= last_ts[1] /\ now_m - last_ts[1] <= IDLE_THRESHOLD)
       => metrics'[1].mode = "typing"]_vars

\* C31: every payload reports an active_time that is not negative: at the
\* moment calculate_metrics reads them, idle_time <= now - session_start,
\* however on_press, which writes session_start, idle_time and last_ts, is
\* interleaved with the computation.
C31_ActiveTimeNotNegative ==
  [][Computes => metrics'[1].active_time >= 0]_vars

\* C32: every payload has 0 <= wpm <= peak_wpm.
C32_WpmWithinPeak ==
  metrics # <<>> =>
    /\ 0 <= metrics[1].wpm
    /\ metrics[1].wpm <= metrics[1].peak_wpm

\* A payload of a burst that has slowed down: a rate above zero and below
\* the peak, computed from the window and not frozen.
C32_Witness ==
  /\ metrics # <<>>
  /\ 0 < metrics[1].wpm /\ metrics[1].wpm < metrics[1].peak_wpm
  /\ now_m - last_word_time <= INACTIVE_WPM_FREEZE
  /\ total_words >= 3


====
